---- MODULE Spec2Model ----
(***************************************************************************)
(* A model of lib/git/cmd.py: the Git class that resolves the repository   *)
(* location (control directory, work tree, cached working directory),      *)
(* runs the git binary as a child process and maps method calls with       *)
(* keyword arguments onto argument vectors.                                *)
(*                                                                         *)
(* Strings are sequences of one-character strings.  A path string is a     *)
(* record [t |-> "str", abs, p] holding whether it is absolute and its     *)
(* components; the empty string is the relative path with no components.   *)
(* Python's None is the record [t |-> "None"].                             *)
(***************************************************************************)
EXTENDS Integers, Sequences, FiniteSets, TLC

VARIABLES
    fs,             \* the filesystem: what the os.path tests answer for each path
    gitDirEnv,      \* os.getenv('GIT_DIR')
    workTreeEnv,    \* os.getenv('GIT_WORK_TREE')
    procCwd,        \* os.getcwd()
    trace,          \* the module global GIT_PYTHON_TRACE
    _location,      \* Git._location
    _is_bare_repo,  \* Git._is_bare_repo
    _git_dir,       \* Git._git_dir
    _is_in_repo,    \* Git._is_in_repo
    _work_tree,     \* Git._work_tree
    _cwd,           \* Git._cwd
    op,             \* the last operation called on the object
    inp,            \* the inputs of that call
    ret,            \* its outcome: what it returned or raised
    events,         \* what the last execute did to the outside, in order
    handles,        \* the child output handles that are open
    envChanged,     \* whether the environment changed since construction
    plan            \* the call the program is about to make

envVars == <<fs, gitDirEnv, workTreeEnv, procCwd, trace>>
objVars == <<_location, _is_bare_repo, _git_dir, _is_in_repo, _work_tree, _cwd>>
callVars == <<op, inp, ret, events, handles>>
vars == <<fs, gitDirEnv, workTreeEnv, procCwd, trace, _location, _is_bare_repo,
          _git_dir, _is_in_repo, _work_tree, _cwd, op, inp, ret, events, handles,
          envChanged, plan>>

----------------------------------------------------------------------------
(* Bounds of the model. *)

\* How many settings of the environment (a path of the filesystem that is not
\* a plain directory, a set GIT_DIR, a set GIT_WORK_TREE) a state may hold.
MaxEnvSettings == 2

\* The longest text a child writes to one of its streams.
MaxOut == 2

\* The most keyword arguments of a call.
MaxKw == 2

\* The most positional arguments of a call.
MaxArgs == 1

----------------------------------------------------------------------------
(* Python values. *)

None == [t |-> "None"]

Str(abs, p) == [t |-> "str", abs |-> abs, p |-> p]

AbsPath(p) == Str(TRUE, p)

EmptyStr == Str(FALSE, <<>>)

\* Python truth of None or a string: "if x", "not x".
Truthy(v) == v.t = "str" /\ (v.abs \/ v.p # <<>>)

----------------------------------------------------------------------------
(* Paths and the filesystem. *)

DotGit == ".git"

\* The directories a walk upward can visit, and their .git children.
WorkDirs == {<<>>, <<"a">>}

Paths == WorkDirs \cup {w \o <<DotGit>> : w \in WorkDirs}

RECURSIVE NormFrom(_, _)
NormFrom(stack, rest) ==
    IF rest = <<>> THEN stack
    ELSE IF Head(rest) = ".."
         THEN NormFrom(IF stack = <<>> THEN <<>>
                       ELSE SubSeq(stack, 1, Len(stack) - 1), Tail(rest))
         ELSE NormFrom(Append(stack, Head(rest)), Tail(rest))

\* os.path.abspath of a path string: joined to the process's working
\* directory when relative, then normalised (".." removes a component, and
\* the root is its own parent).
Abspath(v, cwdNow) ==
    AbsPath(NormFrom(<<>>, IF v.abs THEN v.p ELSE cwdNow \o v.p))

\* os.path.join(v, name) for a relative one-component name.
Join(v, name) == Str(v.abs, Append(v.p, name))

\* os.path.split of an absolute path: (head, tail); the root splits into
\* itself and the empty tail.
Split(p) ==
    IF p = <<>> THEN <<p, "">>
    ELSE <<SubSeq(p, 1, Len(p) - 1), p[Len(p)]>>

NoHead == [kind |-> "none", target |-> <<>>, tofile |-> FALSE]
FileHead == [kind |-> "file", target |-> <<>>, tofile |-> FALSE]
LinkHead(target, tofile) == [kind |-> "link", target |-> target, tofile |-> tofile]

Node(isdir, objects, refs, head) ==
    [isdir |-> isdir, objects |-> objects, refs |-> refs, head |-> head]

PlainDir == Node(TRUE, FALSE, FALSE, NoHead)
MissingNode == Node(FALSE, FALSE, FALSE, NoHead)

RefsMaster == <<"r", "e", "f", "s", "/", "m">>
RefOnly == <<"r", "e", "f">>

\* What a path of a state's filesystem may be besides a plain directory.
NodeChoices ==
    { Node(TRUE, TRUE, TRUE, FileHead),
      Node(TRUE, TRUE, TRUE, LinkHead(RefsMaster, FALSE)),
      Node(TRUE, TRUE, TRUE, LinkHead(RefOnly, FALSE)),
      Node(TRUE, TRUE, TRUE, LinkHead(RefOnly, TRUE)),
      Node(TRUE, TRUE, FALSE, FileHead),
      MissingNode }

\* The node at an absolute path; there is nothing outside the universe.
Lookup(f, p) == IF p \in DOMAIN f THEN f[p] ELSE MissingNode

\* A filesystem a program can meet: the parent of a directory is one.
FsConsistent(f) ==
    \A p \in DOMAIN f : (f[p].isdir /\ p # <<>>) => Lookup(f, Split(p)[1]).isdir

StartsWith(s, prefix) ==
    Len(s) >= Len(prefix) /\ SubSeq(s, 1, Len(prefix)) = prefix

Refs == <<"r", "e", "f", "s">>

\* os.path.isdir of a path string.
IsDir(f, v, cwdNow) == Lookup(f, Abspath(v, cwdNow).p).isdir

\* os.path.isfile follows a symbolic link.
IsFile(h) == h.kind = "file" \/ (h.kind = "link" /\ h.tofile)

IsLink(h) == h.kind = "link"

\* A mutant of IsGitDir: a HEAD that is a symbolic link is not accepted.
IsGitDirFileOnly(f, v, cwdNow) ==
    LET n == Lookup(f, Abspath(v, cwdNow).p)
    IN IF n.isdir /\ n.objects /\ n.refs THEN IsFile(n.head) ELSE FALSE

\* Git._is_git_dir(d)
IsGitDir(f, v, cwdNow) ==
    LET n == Lookup(f, Abspath(v, cwdNow).p)
    IN IF n.isdir /\ n.objects /\ n.refs
       THEN IsFile(n.head) \/ (IsLink(n.head) /\ StartsWith(n.head.target, Refs))
       ELSE FALSE

\* The loop of Git.get_git_dir from curpath: the directory found, or what
\* _git_dir held before the loop.
RECURSIVE WalkUp(_, _, _, _)
WalkUp(f, curpath, cwdNow, before) ==
    IF IsGitDir(f, AbsPath(curpath), cwdNow) THEN AbsPath(curpath)
    ELSE LET gitpath == Join(AbsPath(curpath), DotGit)
         IN IF IsGitDir(f, gitpath, cwdNow) THEN gitpath
            ELSE LET s == Split(curpath)
                 IN IF s[2] = "" THEN before
                    ELSE WalkUp(f, s[1], cwdNow, before)

\* Git.get_git_dir: the value _git_dir holds when it returns (and returns).
GetGitDirValue(f, genv, cwdNow, loc, gd) ==
    IF ~Truthy(gd)
    THEN IF Truthy(genv) /\ IsGitDir(f, genv, cwdNow) THEN genv
         ELSE WalkUp(f, loc, cwdNow, genv)
    ELSE gd

\* Git.get_work_tree on a repository that is not bare: [raised, wt], the
\* value _work_tree holds when the call ends and whether it ended by raising
\* (os.path.join of None).
GetWorkTreeValue(f, wenv, cwdNow, gd, wt) ==
    IF ~Truthy(wt)
    THEN IF ~Truthy(wenv) \/ ~IsDir(f, wenv, cwdNow)
         THEN IF gd = None THEN [raised |-> TRUE, wt |-> wenv]
              ELSE [raised |-> FALSE, wt |-> Abspath(Join(gd, ".."), cwdNow)]
         ELSE [raised |-> FALSE, wt |-> wenv]
    ELSE [raised |-> FALSE, wt |-> wt]

\* A mutant of RefreshValue: the work tree is resolved for a bare
\* repository too.
RefreshValueAnyRepo(f, genv, wenv, cwdNow, loc, bare) ==
    LET gd == GetGitDirValue(f, genv, cwdNow, loc, None)
        w == GetWorkTreeValue(f, wenv, cwdNow, gd, None)
    IN IF Truthy(gd)
       THEN [git_dir |-> gd, is_in_repo |-> Truthy(gd),
             work_tree |-> w.wt, cwd |-> w.wt]
       ELSE [git_dir |-> gd, is_in_repo |-> Truthy(gd),
             work_tree |-> None, cwd |-> gd]

\* Git.refresh: the location fields when it returns.
RefreshValue(f, genv, wenv, cwdNow, loc, bare) ==
    LET gd == GetGitDirValue(f, genv, cwdNow, loc, None)
        w == GetWorkTreeValue(f, wenv, cwdNow, gd, None)
    IN IF Truthy(gd) /\ ~bare
       THEN [git_dir |-> gd, is_in_repo |-> Truthy(gd),
             work_tree |-> w.wt, cwd |-> w.wt]
       ELSE [git_dir |-> gd, is_in_repo |-> Truthy(gd),
             work_tree |-> None, cwd |-> gd]

----------------------------------------------------------------------------
(* Text and the values passed as arguments. *)

Text(s) == [t |-> "text", s |-> s]

PyBool(b) == [t |-> "bool", b |-> b]

PyInt(n) == [t |-> "int", n |-> n]

\* Python truth of an argument value.
PyTruth(v) ==
    CASE v.t = "bool" -> v.b
      [] v.t = "int" -> v.n # 0
      [] v.t = "text" -> v.s # <<>>
      [] OTHER -> FALSE

Digit(d) == <<"0", "1", "2", "3", "4", "5", "6", "7", "8", "9">>[d + 1]

RECURSIVE NatToStr(_)
NatToStr(n) ==
    IF n < 10 THEN <<Digit(n)>> ELSE Append(NatToStr(n \div 10), Digit(n % 10))

\* str(v), and "%s" % v.
PyStr(v) ==
    CASE v.t = "bool" -> IF v.b THEN <<"T", "r", "u", "e">>
                         ELSE <<"F", "a", "l", "s", "e">>
      [] v.t = "int" -> IF v.n < 0 THEN <<"-">> \o NatToStr(-v.n) ELSE NatToStr(v.n)
      [] v.t = "text" -> v.s
      [] v.t = "None" -> <<"N", "o", "n", "e">>
      [] OTHER -> <<"<", "f", "i", "l", "e", ">">>

\* utils.dashify: every underscore becomes a hyphen.
Dashify(s) == [i \in 1..Len(s) |-> IF s[i] = "_" THEN "-" ELSE s[i]]

Whitespace == {" ", "\n", "\t"}

\* str.rstrip()
RECURSIVE RStrip(_)
RStrip(s) ==
    IF s # <<>> /\ s[Len(s)] \in Whitespace
    THEN RStrip(SubSeq(s, 1, Len(s) - 1))
    ELSE s

\* ' '.join(words)
RECURSIVE JoinWords(_)
JoinWords(words) ==
    IF words = <<>> THEN <<>>
    ELSE IF Len(words) = 1 THEN words[1]
    ELSE words[1] \o <<" ">> \o JoinWords(Tail(words))

----------------------------------------------------------------------------
(* The trace flag. *)

\* GIT_PYTHON_TRACE when the environment does not set it.
TraceUnset == PyBool(FALSE)

Full == <<"f", "u", "l", "l">>

TraceValues == {TraceUnset, Text(<<>>), Text(<<"1">>), Text(Full)}

----------------------------------------------------------------------------
(* Git.execute *)

\* The keyword arguments of execute, in the order execute_kwargs names them.
execute_kwargs ==
    << <<"i", "s", "t", "r", "e", "a", "m">>,
       <<"w", "i", "t", "h", "_", "k", "e", "e", "p", "_", "c", "w", "d">>,
       <<"w", "i", "t", "h", "_", "e", "x", "t", "e", "n", "d", "e", "d", "_",
         "o", "u", "t", "p", "u", "t">>,
       <<"w", "i", "t", "h", "_", "e", "x", "c", "e", "p", "t", "i", "o", "n", "s">>,
       <<"w", "i", "t", "h", "_", "r", "a", "w", "_", "o", "u", "t", "p", "u", "t">> >>

\* The defaults of execute's keyword arguments.
DefaultOpts ==
    [istream |-> None, with_keep_cwd |-> PyBool(FALSE),
     with_extended_output |-> PyBool(FALSE), with_exceptions |-> PyBool(TRUE),
     with_raw_output |-> PyBool(FALSE)]

PrintArgv(text) == [e |-> "print", form |-> "argv", text |-> text]

PrintFull(command, status, streams) ==
    [e |-> "print", form |-> "full", command |-> command, status |-> status,
     streams |-> streams]

Spawn(command, cwd, stdin) ==
    [e |-> "spawn", command |-> command, cwd |-> cwd, stdin |-> stdin]

Close(stream) == [e |-> "close", stream |-> stream]

ReturnValue(v) == [kind |-> "return", shape |-> "value", value |-> v]

ReturnStr(out) == [kind |-> "return", shape |-> "str", out |-> out]

ReturnTuple(status, out, err) ==
    [kind |-> "return", shape |-> "tuple", status |-> status, out |-> out,
     err |-> err]

ReturnList(items) == [kind |-> "return", shape |-> "list", items |-> items]

GitCommandError(command, status, stderr) ==
    [kind |-> "raise", exc |-> "GitCommandError", command |-> command,
     status |-> status, stderr |-> stderr]

Raise(exc) == [kind |-> "raise", exc |-> exc]

\* A mutant of TraceBefore: the test for 'full' is left out.
TraceBeforeAlways(tr, command) ==
    IF PyTruth(tr) THEN <<PrintArgv(JoinWords(command))>> ELSE <<>>

\* The trace before the child starts (lines 117-118).
TraceBefore(tr, command) ==
    IF PyTruth(tr) /\ ~(tr = Text(Full))
    THEN <<PrintArgv(JoinWords(command))>>
    ELSE <<>>

\* The working directory of the child (lines 121-124).
ChildCwd(opts, cwdSelf, cwdNow) ==
    IF PyTruth(opts.with_keep_cwd) THEN AbsPath(cwdNow) ELSE cwdSelf

\* A mutant of ReadAndWait: the handles are closed after the wait, with no
\* finally.
ReadAndWaitNoFinally(child) ==
    [closed |-> IF child.fail \in {"stdout", "stderr", "wait"} THEN <<>>
                ELSE <<Close("stdout"), Close("stderr")>>,
     raised |-> child.fail \in {"stdout", "stderr", "wait"}]

\* The try/finally around the reads and the wait (lines 135-141): the
\* handles closed and whether the block ended by raising.
ReadAndWait(child) ==
    [closed |-> <<Close("stdout"), Close("stderr")>>,
     raised |-> child.fail \in {"stdout", "stderr", "wait"}]

\* The trace after the child ended (lines 151-157); the streams the line
\* reports, in order.
TraceAfter(tr, command, status, out, err) ==
    IF tr = Text(Full)
    THEN IF err # <<>> THEN <<PrintFull(command, status, <<out, err>>)>>
         ELSE IF out # <<>> THEN <<PrintFull(command, status, <<out>>)>>
         ELSE <<PrintFull(command, status, <<>>)>>
    ELSE <<>>

\* A mutant of Classify: the status is not looked at.
ClassifyAnyStatus(command, opts, status, out, err) ==
    IF PyTruth(opts.with_exceptions)
    THEN GitCommandError(command, status, err)
    ELSE IF PyTruth(opts.with_extended_output)
         THEN ReturnTuple(status, out, err)
         ELSE ReturnStr(out)

\* What the call returns or raises once the child was read (lines 143-163).
Classify(command, opts, status, out, err) ==
    IF PyTruth(opts.with_exceptions) /\ status # 0
    THEN GitCommandError(command, status, err)
    ELSE IF PyTruth(opts.with_extended_output)
         THEN ReturnTuple(status, out, err)
         ELSE ReturnStr(out)

\* The streams after the stripping of lines 144-146.
Stripped(opts, s) == IF ~PyTruth(opts.with_raw_output) THEN RStrip(s) ELSE s

\* Git.execute: [events, ret, open], what the call did in order, how it
\* ended and the handles it left open.
ExecuteValue(command, opts, child, tr, cwdSelf, cwdNow) ==
    LET before == TraceBefore(tr, command)
        spawn == Spawn(command, ChildCwd(opts, cwdSelf, cwdNow), opts.istream)
        rw == ReadAndWait(child)
        opened == {"stdout", "stderr"}
        left == opened \ {rw.closed[i].stream : i \in 1..Len(rw.closed)}
        out == Stripped(opts, child.out)
        err == Stripped(opts, child.err)
        end == Classify(command, opts, child.status, out, err)
    IN IF child.fail = "spawn"
       THEN [events |-> before, ret |-> Raise("OSError"), open |-> {}]
       ELSE IF rw.raised
       THEN [events |-> before \o <<spawn>> \o rw.closed,
             ret |-> Raise("IOError"), open |-> left]
       ELSE IF end.kind = "raise"
       THEN [events |-> before \o <<spawn>> \o rw.closed, ret |-> end,
             open |-> left]
       ELSE [events |-> before \o <<spawn>> \o rw.closed
                          \o TraceAfter(tr, command, child.status, out, err),
             ret |-> end, open |-> left]

----------------------------------------------------------------------------
(* Git.transform_kwargs and Git.method_missing *)

\* A mutant of FlagOf: "elif v is not True" for "elif type(v) is not bool".
FlagOfNotTrue(k, v) ==
    IF Len(k) = 1
    THEN IF v = PyBool(TRUE) THEN << <<"-">> \o k >>
         ELSE << <<"-">> \o k \o PyStr(v) >>
    ELSE IF v = PyBool(TRUE) THEN << <<"-", "-">> \o Dashify(k) >>
         ELSE << <<"-", "-">> \o Dashify(k) \o <<"=">> \o PyStr(v) >>

\* The flag one keyword argument gives (lines 171-180): a list of no or one
\* token.
FlagOf(k, v) ==
    IF Len(k) = 1
    THEN IF v = PyBool(TRUE) THEN << <<"-">> \o k >>
         ELSE IF v.t # "bool" THEN << <<"-">> \o k \o PyStr(v) >>
         ELSE <<>>
    ELSE IF v = PyBool(TRUE) THEN << <<"-", "-">> \o Dashify(k) >>
         ELSE IF v.t # "bool" THEN << <<"-", "-">> \o Dashify(k) \o <<"=">> \o PyStr(v) >>
         ELSE <<>>

\* Git.transform_kwargs, with the order in which kwargs.items() yields the
\* keys.
RECURSIVE TransformKwargsValue(_, _)
TransformKwargsValue(kwargs, order) ==
    IF order = <<>> THEN <<>>
    ELSE FlagOf(Head(order), kwargs[Head(order)])
         \o TransformKwargsValue(kwargs, Tail(order))

\* The keys of execute_kwargs.
ExecuteKeys == {execute_kwargs[i] : i \in 1..Len(execute_kwargs)}

\* The _kwargs of method_missing (lines 208-213): the execute options popped
\* from kwargs, over execute's defaults.
PoppedOpts(kwargs) ==
    LET has(k) == k \in DOMAIN kwargs
        get(i, default) == IF has(execute_kwargs[i]) THEN kwargs[execute_kwargs[i]]
                           ELSE default
    IN [istream |-> get(1, DefaultOpts.istream),
        with_keep_cwd |-> get(2, DefaultOpts.with_keep_cwd),
        with_extended_output |-> get(3, DefaultOpts.with_extended_output),
        with_exceptions |-> get(4, DefaultOpts.with_exceptions),
        with_raw_output |-> get(5, DefaultOpts.with_raw_output)]

\* A mutant of RemainingKwargs: nothing is popped.
RemainingKwargsAll(kwargs) == kwargs

\* kwargs after the pops.
RemainingKwargs(kwargs) ==
    [k \in DOMAIN kwargs \ ExecuteKeys |-> kwargs[k]]

\* map(str, args)
RECURSIVE MapStr(_)
MapStr(args) ==
    IF args = <<>> THEN <<>> ELSE <<PyStr(Head(args))>> \o MapStr(Tail(args))

GitName == <<"g", "i", "t">>

\* The call list of method_missing (lines 216-221).
CallValue(method, args, kwargs, order) ==
    <<GitName, Dashify(method)>>
        \o (TransformKwargsValue(RemainingKwargs(kwargs), order) \o MapStr(args))

----------------------------------------------------------------------------
(* The operations, as actions. *)

NoInput == [none |-> TRUE]

\* Git.__init__ (lines 20-23): _location.
InitLocation(arg, cwdNow) ==
    IF Truthy(arg) THEN Abspath(arg, cwdNow).p ELSE cwdNow

\* Git.refresh()
Refresh ==
    LET r == RefreshValue(fs, gitDirEnv, workTreeEnv, procCwd, _location,
                          _is_bare_repo)
    IN /\ _git_dir' = r.git_dir
       /\ _is_in_repo' = r.is_in_repo
       /\ _work_tree' = r.work_tree
       /\ _cwd' = r.cwd
       /\ op' = "refresh"
       /\ inp' = NoInput
       /\ ret' = ReturnValue(None)
       /\ events' = <<>>
       /\ UNCHANGED <<envVars, _location, _is_bare_repo, handles, envChanged, plan>>

\* Git.get_git_dir()
GetGitDir ==
    /\ _git_dir' = GetGitDirValue(fs, gitDirEnv, procCwd, _location, _git_dir)
    /\ op' = "get_git_dir"
    /\ inp' = NoInput
    /\ ret' = ReturnValue(_git_dir')
    /\ events' = <<>>
    /\ UNCHANGED <<envVars, _location, _is_bare_repo, _is_in_repo, _work_tree,
                   _cwd, handles, envChanged, plan>>

\* Git.get_work_tree()
GetWorkTree ==
    LET w == GetWorkTreeValue(fs, workTreeEnv, procCwd, _git_dir, _work_tree)
    IN /\ IF _is_bare_repo
          THEN /\ ret' = ReturnValue(None)
               /\ UNCHANGED _work_tree
          ELSE /\ ret' = IF w.raised THEN Raise("AttributeError")
                         ELSE ReturnValue(w.wt)
               /\ _work_tree' = w.wt
       /\ op' = "get_work_tree"
       /\ inp' = NoInput
       /\ events' = <<>>
       /\ UNCHANGED <<envVars, _location, _is_bare_repo, _git_dir, _is_in_repo,
                      _cwd, handles, envChanged, plan>>

\* Git.execute(command, **opts) with a child that behaves as `child`.
Execute(command, opts, child) ==
    LET x == ExecuteValue(command, opts, child, trace, _cwd, procCwd)
    IN /\ op' = "execute"
       /\ inp' = [command |-> command, opts |-> opts, child |-> child]
       /\ ret' = x.ret
       /\ events' = x.events
       /\ handles' = handles \cup x.open
       /\ UNCHANGED <<envVars, objVars, envChanged, plan>>

\* Whether `order` lists each element of the set once.
IsOrderOf(order, set) ==
    /\ Len(order) = Cardinality(set)
    /\ {order[i] : i \in 1..Len(order)} = set

Orders(set) ==
    {o \in [1..Cardinality(set) -> set] : IsOrderOf(o, set)}

\* Git.transform_kwargs(**kwargs)
TransformKwargs(kwargs, order) ==
    /\ IsOrderOf(order, DOMAIN kwargs)
    /\ op' = "transform_kwargs"
    /\ inp' = [kwargs |-> kwargs, order |-> order]
    /\ ret' = ReturnList(TransformKwargsValue(kwargs, order))
    /\ events' = <<>>
    /\ UNCHANGED <<envVars, objVars, handles, envChanged, plan>>

\* Git.method_missing(method, *args, **kwargs): the call it makes to
\* execute is recorded with its inputs.
MethodMissing(method, args, kwargs, order, child) ==
    LET call == CallValue(method, args, kwargs, order)
        opts == PoppedOpts(kwargs)
        x == ExecuteValue(call, opts, child, trace, _cwd, procCwd)
    IN /\ IsOrderOf(order, DOMAIN RemainingKwargs(kwargs))
       /\ op' = "method_missing"
       /\ inp' = [method |-> method, args |-> args, kwargs |-> kwargs,
                  order |-> order, child |-> child,
                  execute |-> [command |-> call, opts |-> opts]]
       /\ ret' = x.ret
       /\ events' = x.events
       /\ handles' = handles \cup x.open
       /\ UNCHANGED <<envVars, objVars, envChanged, plan>>

----------------------------------------------------------------------------
(* The environments and inputs of the specifications. *)

\* What GIT_DIR and GIT_WORK_TREE may hold: unset, empty, an absolute path,
\* or the relative path ".git".
EnvValues ==
    {None, EmptyStr, Str(FALSE, <<DotGit>>)} \cup {AbsPath(p) : p \in Paths}

\* How to construct the object: the git_dir argument and the directory the
\* process is in.
Starts ==
    {[arg |-> None, cwd |-> w] : w \in WorkDirs}
        \cup {[arg |-> AbsPath(p), cwd |-> <<>>] : p \in Paths}
        \cup {[arg |-> Str(FALSE, <<DotGit>>), cwd |-> <<"a">>]}

\* The filesystem in which the paths of S are as m says and the others are
\* plain directories.
FsOf(S, m) == [p \in Paths |-> IF p \in S THEN m[p] ELSE PlainDir]

Settings(f, genv, wenv) ==
    Cardinality({p \in DOMAIN f : f[p] # PlainDir})
        + (IF genv = None THEN 0 ELSE 1) + (IF wenv = None THEN 0 ELSE 1)

\* The state after Git(arg, bare) in an environment.
Constructed(f, genv, wenv, tr, start, bare, todo) ==
    LET loc == InitLocation(start.arg, start.cwd)
        r == RefreshValue(f, genv, wenv, start.cwd, loc, bare)
    IN /\ FsConsistent(f)
       /\ Lookup(f, start.cwd).isdir
       /\ fs = f
       /\ gitDirEnv = genv
       /\ workTreeEnv = wenv
       /\ procCwd = start.cwd
       /\ trace = tr
       /\ _location = loc
       /\ _is_bare_repo = bare
       /\ _git_dir = r.git_dir
       /\ _is_in_repo = r.is_in_repo
       /\ _work_tree = r.work_tree
       /\ _cwd = r.cwd
       /\ op = "init"
       /\ inp = NoInput
       /\ ret = ReturnValue(None)
       /\ events = <<>>
       /\ handles = {}
       /\ envChanged = FALSE
       /\ plan = todo

\* Construction in any environment of at most MaxEnvSettings settings.
Init ==
    \E S \in SUBSET Paths :
        /\ Cardinality(S) <= MaxEnvSettings
        /\ \E m \in [S -> NodeChoices], genv \in EnvValues, wenv \in EnvValues,
              start \in Starts, bare \in BOOLEAN :
              /\ Settings(FsOf(S, m), genv, wenv) <= MaxEnvSettings
              /\ Constructed(FsOf(S, m), genv, wenv, TraceUnset, start, bare,
                             NoInput)

GitStatus == <<GitName, <<"s", "t", "a", "t", "u", "s">>>>

ChildOk == [fail |-> "none", status |-> 0, out |-> <<>>, err |-> <<>>]

KeepCwdOpts == [DefaultOpts EXCEPT !.with_keep_cwd = PyBool(TRUE)]

\* The public operations in an environment that stays as it is.
Next ==
    \/ Refresh
    \/ GetGitDir
    \/ GetWorkTree
    \/ Execute(GitStatus, DefaultOpts, ChildOk)

Spec == Init /\ [][Next]_vars

----------------------------------------------------------------------------
(* The public operations while the environment changes under the object. *)

\* os.environ['GIT_DIR'] = v, or its removal
SetGitDirEnv(v) ==
    /\ ~envChanged
    /\ v # gitDirEnv
    /\ gitDirEnv' = v
    /\ envChanged' = TRUE
    /\ op' = "setenv"
    /\ inp' = NoInput
    /\ ret' = ReturnValue(None)
    /\ events' = <<>>
    /\ UNCHANGED <<fs, workTreeEnv, procCwd, trace, objVars, handles, plan>>

\* os.environ['GIT_WORK_TREE'] = v, or its removal
SetWorkTreeEnv(v) ==
    /\ ~envChanged
    /\ v # workTreeEnv
    /\ workTreeEnv' = v
    /\ envChanged' = TRUE
    /\ op' = "setenv"
    /\ inp' = NoInput
    /\ ret' = ReturnValue(None)
    /\ events' = <<>>
    /\ UNCHANGED <<fs, gitDirEnv, procCwd, trace, objVars, handles, plan>>

\* os.chdir(d)
Chdir(d) ==
    /\ ~envChanged
    /\ d # procCwd
    /\ Lookup(fs, d).isdir
    /\ procCwd' = d
    /\ envChanged' = TRUE
    /\ op' = "chdir"
    /\ inp' = NoInput
    /\ ret' = ReturnValue(None)
    /\ events' = <<>>
    /\ UNCHANGED <<fs, gitDirEnv, workTreeEnv, trace, objVars, handles, plan>>

\* Another program changes the path p of the filesystem into n.
ChangeFs(p, n) ==
    /\ ~envChanged
    /\ n # fs[p]
    /\ FsConsistent([fs EXCEPT ![p] = n])
    /\ Lookup([fs EXCEPT ![p] = n], procCwd).isdir
    /\ fs' = [fs EXCEPT ![p] = n]
    /\ envChanged' = TRUE
    /\ op' = "changefs"
    /\ inp' = NoInput
    /\ ret' = ReturnValue(None)
    /\ events' = <<>>
    /\ UNCHANGED <<gitDirEnv, workTreeEnv, procCwd, trace, objVars, handles, plan>>

\* Construction where the overrides are unset and at most one path is not a
\* plain directory.
InitEnv ==
    \E S \in SUBSET Paths :
        /\ Cardinality(S) <= 1
        /\ \E m \in [S -> NodeChoices], start \in Starts, bare \in BOOLEAN :
              Constructed(FsOf(S, m), None, None, TraceUnset, start, bare,
                          NoInput)

NextEnv ==
    \/ Refresh
    \/ GetGitDir
    \/ GetWorkTree
    \/ \E opts \in {DefaultOpts, KeepCwdOpts} : Execute(GitStatus, opts, ChildOk)
    \/ \E v \in EnvValues : SetGitDirEnv(v)
    \/ \E v \in EnvValues : SetWorkTreeEnv(v)
    \/ \E d \in WorkDirs : Chdir(d)
    \/ \E p \in Paths, n \in NodeChoices \cup {PlainDir} : ChangeFs(p, n)

SpecEnv == InitEnv /\ [][NextEnv]_vars

----------------------------------------------------------------------------
(* Git.execute over the options and the behaviours of the child. *)

\* A repository /a/.git with its work tree /a.
RepoFs == FsOf({<<"a", DotGit>>}, [p \in {<<"a", DotGit>>} |-> Node(TRUE, TRUE, TRUE, FileHead)])

InRepo == [arg |-> AbsPath(<<"a">>), cwd |-> <<>>]

StdinStream == [t |-> "stream"]

Bools == {PyBool(TRUE), PyBool(FALSE)}

AllOpts ==
    [istream : {None, StdinStream}, with_keep_cwd : Bools,
     with_extended_output : Bools, with_exceptions : Bools,
     with_raw_output : Bools]

GitLog == <<GitName, <<"l", "o", "g">>, <<"-", "n", "1">>>>

ExecCommands == {GitStatus, GitLog}

OutChars == {"a", "\n"}

Outputs == UNION {[1..n -> OutChars] : n \in 0..MaxOut}

Statuses == {0, 1, 128}

\* A child that ends with a status after writing its streams, or one that
\* cannot be started, read or waited for.
Children ==
    [fail : {"none"}, status : Statuses, out : Outputs, err : Outputs]
        \cup [fail : {"spawn", "stdout", "stderr", "wait"}, status : {0},
              out : {<<>>}, err : {<<>>}]

\* The object in a repository, and the call of execute the program makes.
InitExec ==
    \E tr \in TraceValues, command \in ExecCommands, opts \in AllOpts,
       child \in Children :
        Constructed(RepoFs, None, None, tr, InRepo, FALSE,
                    [command |-> command, opts |-> opts, child |-> child])

NextExec == Execute(plan.command, plan.opts, plan.child)

SpecExec == InitExec /\ [][NextExec]_vars

----------------------------------------------------------------------------
(* Calls by method name. *)

MaxCount == <<"m", "a", "x", "_", "c", "o", "u", "n", "t">>

FlagKeys == {<<"n">>, MaxCount, <<"h", "e", "a", "d", "e", "r">>}

FlagValues == {PyBool(TRUE), PyBool(FALSE), PyInt(10), Text(<<"x">>), None}

\* The values a call gives a keyword.
ValuesFor(k) ==
    IF k = execute_kwargs[1] THEN {StdinStream}
    ELSE IF k = execute_kwargs[4] THEN {PyBool(FALSE)}
    ELSE IF k \in ExecuteKeys THEN {PyBool(TRUE)}
    ELSE FlagValues

KwargsChoices ==
    UNION { {kw \in [Ks -> FlagValues \cup {StdinStream}] :
                \A k \in Ks : kw[k] \in ValuesFor(k)} :
            Ks \in {K \in SUBSET (FlagKeys \cup ExecuteKeys) :
                       Cardinality(K) <= MaxKw} }

ArgValues == {Text(<<"m">>), PyInt(10)}

ArgLists == UNION {[1..n -> ArgValues] : n \in 0..MaxArgs}

Methods == {<<"l", "o", "g">>, <<"r", "e", "v", "_", "l", "i", "s", "t">>}

ChildFails == [fail |-> "none", status |-> 1, out |-> <<>>, err |-> <<"a", "\n">>]

\* The keys of `order` that are in `keys`, in its order.
RECURSIVE Restrict(_, _)
Restrict(order, keys) ==
    IF order = <<>> THEN <<>>
    ELSE IF Head(order) \in keys THEN <<Head(order)>> \o Restrict(Tail(order), keys)
    ELSE Restrict(Tail(order), keys)

\* The object in a repository, and the call the program makes: its
\* arguments, and the order in which the dictionary of its keyword
\* arguments yields them.
InitDispatch ==
    \E method \in Methods, args \in ArgLists, kwargs \in KwargsChoices,
       child \in {ChildOk, ChildFails} :
        \E order \in Orders(DOMAIN kwargs) :
            Constructed(RepoFs, None, None, TraceUnset, InRepo, FALSE,
                        [method |-> method, args |-> args, kwargs |-> kwargs,
                         order |-> order, child |-> child])

NextDispatch ==
    \/ TransformKwargs(plan.kwargs, plan.order)
    \/ MethodMissing(plan.method, plan.args, plan.kwargs,
                     Restrict(plan.order, DOMAIN RemainingKwargs(plan.kwargs)),
                     plan.child)

SpecDispatch == InitDispatch /\ [][NextDispatch]_vars

----------------------------------------------------------------------------
(* The claims about Git.execute, under SpecExec. *)

\* r is s without its trailing whitespace.
IsRStripOf(r, s) ==
    /\ Len(r) <= Len(s)
    /\ \A i \in 1..Len(r) : r[i] = s[i]
    /\ \A i \in (Len(r) + 1)..Len(s) : s[i] \in Whitespace
    /\ r # <<>> => r[Len(r)] \notin Whitespace

\* What the caller is to see of a captured stream s.
IsCaptured(r, s, opts) ==
    IF opts.with_raw_output = PyBool(TRUE) THEN r = s ELSE IsRStripOf(r, s)

\* The last operation was an execute whose child ended with a status.
ExecutedToStatus == op = "execute" /\ inp.child.fail = "none"

IsGitError(r) == r.kind = "raise" /\ r.exc = "GitCommandError"

FirstSpawn ==
    IF \E i \in 1..Len(events) : events[i].e = "spawn"
    THEN CHOOSE i \in 1..Len(events) : events[i].e = "spawn"
    ELSE 0

Prints == {i \in 1..Len(events) : events[i].e = "print"}

ArgvPrints == {i \in Prints : events[i].form = "argv"}

FullPrints == {i \in Prints : events[i].form = "full"}

Closes(stream) == {i \in 1..Len(events) : events[i] = Close(stream)}

C10_HandlesClosed ==
    /\ handles = {}
    /\ (op = "execute" /\ FirstSpawn # 0) =>
           /\ \E i \in Closes("stdout") : i > FirstSpawn
           /\ \E i \in Closes("stderr") : i > FirstSpawn
    /\ (op = "execute" /\ inp.child.fail # "spawn") => FirstSpawn # 0

\* The read of stderr raised: the call raised it on, with both handles closed.
C10_Witness ==
    /\ op = "execute"
    /\ inp.child.fail = "stderr"
    /\ ret = Raise("IOError")
    /\ Closes("stdout") # {}
    /\ Closes("stderr") # {}
    /\ handles = {}

----------------------------------------------------------------------------
(* The claims about transform_kwargs and method_missing, under             *)
(* SpecDispatch.                                                           *)

Hyphen == <<"-">>

\* The key as a command line writes it: its underscores are hyphens.
IsDashified(d, k) ==
    /\ Len(d) = Len(k)
    /\ \A i \in 1..Len(k) : d[i] = (IF k[i] = "_" THEN "-" ELSE k[i])

\* Whether token is the flag the rules give the keyword k with the value v,
\* which is not False.
IsFlagFor(token, k, v) ==
    LET value == IF v = PyBool(TRUE) THEN <<>> ELSE PyStr(v)
    IN IF Len(k) = 1
       THEN token = Hyphen \o k \o value
       ELSE /\ Len(token) >= 2 + Len(k)
            /\ IsDashified(SubSeq(token, 3, 2 + Len(k)), k)
            /\ token = Hyphen \o Hyphen \o SubSeq(token, 3, 2 + Len(k))
                           \o (IF v = PyBool(TRUE) THEN <<>> ELSE <<"=">> \o value)

\* The keywords of kwargs that give a flag: all but those that are False.
FlagGiving(kwargs) == {k \in DOMAIN kwargs : kwargs[k] # PyBool(FALSE)}

\* tokens holds one flag for each keyword of kwargs that is not False, and
\* nothing else.
AreFlagsOf(tokens, kwargs) ==
    /\ Len(tokens) = Cardinality(FlagGiving(kwargs))
    /\ \A k \in FlagGiving(kwargs) :
           \E i \in 1..Len(tokens) : IsFlagFor(tokens[i], k, kwargs[k])

\* C2: transform_kwargs gives each keyword argument at most one flag: -k for
\* a one-character key that is True, -k<value> for one with a value that is
\* not a boolean, --k-dashified for a longer key that is True,
\* --k-dashified=value for one with a value that is not a boolean; a keyword
\* that is False gives no token at all.
C2_TransformKwargs ==
    op = "transform_kwargs" => AreFlagsOf(ret.items, inp.kwargs)

\* max_count=10 with n=False: the one flag --max-count=10.
C2_Witness ==
    /\ op = "transform_kwargs"
    /\ DOMAIN inp.kwargs = {MaxCount, <<"n">>}
    /\ inp.kwargs[MaxCount] = PyInt(10)
    /\ inp.kwargs[<<"n">>] = PyBool(FALSE)
    /\ ret.items = << <<"-", "-", "m", "a", "x", "-", "c", "o", "u", "n", "t",
                       "=", "1", "0">> >>

\* The field of execute's options that the i-th name of execute_kwargs sets.
OptionNamed(opts, i) ==
    <<opts.istream, opts.with_keep_cwd, opts.with_extended_output,
      opts.with_exceptions, opts.with_raw_output>>[i]

----------------------------------------------------------------------------
(* The claims about the repository location, under Spec and SpecEnv. *)

\* The location was resolved by the last operation: the construction or a
\* refresh.
Resolved == op \in {"init", "refresh"}

\* A directory and the directories above it.
Prefixes(p) == {SubSeq(p, 1, n) : n \in 0..Len(p)}

IsPrefix(p, q) == p \in Prefixes(q)

\* The code's validity test of the control directory at an absolute path.
ValidAt(p) == IsGitDir(fs, AbsPath(p), procCwd)

\* A control directory as the claims describe one: objects and refs are
\* directories and HEAD is a regular file or a symbolic link to refs...
IsControlDir(p) ==
    LET n == Lookup(fs, p)
    IN /\ n.isdir /\ n.objects /\ n.refs
       /\ \/ n.head.kind = "file"
          \/ n.head.kind = "link" /\ StartsWith(n.head.target, Refs)

\* C4: when neither the start nor a directory above it is, or holds a .git
\* that is, a valid control directory, and GIT_DIR is unset or names no
\* valid control directory, the construction and refresh leave the control
\* directory absent and the object outside a repository.
C4_NothingFound ==
    ( /\ Resolved
      /\ \A d \in Prefixes(_location) :
             ~ValidAt(d) /\ ~ValidAt(d \o <<DotGit>>)
      /\ ~(Truthy(gitDirEnv) /\ IsGitDir(fs, gitDirEnv, procCwd)) )
    => (~Truthy(_git_dir) /\ ~_is_in_repo)

\* C5, as claimed: with GIT_DIR unset, from a valid control directory D or
\* from any directory in or under the work tree W of D = W/.git, the
\* resolution finds D.
C5_FindsAsClaimed ==
    (Resolved /\ gitDirEnv = None) =>
        \A D \in Paths :
            ( /\ IsControlDir(D)
              /\ \/ _location = D
                 \/ Split(D)[2] = DotGit /\ IsPrefix(Split(D)[1], _location) )
            => _git_dir = AbsPath(D)

\* C5, amended: with GIT_DIR unset, the resolution finds the first valid
\* control directory on the way up from the start, each directory being
\* tried before its .git.  Started at a valid control directory D it finds
\* D.  Started in or under the directory W, it finds the valid control
\* directory W/.git when no directory from the start up to W is itself a
\* valid control directory and no directory from the start up to W, W
\* excluded, holds a valid .git.
C5_FindsNearest ==
    (Resolved /\ gitDirEnv = None) =>
        /\ IsControlDir(_location) => _git_dir = AbsPath(_location)
        /\ \A W \in Prefixes(_location) :
               ( /\ IsControlDir(W \o <<DotGit>>)
                 /\ \A d \in Prefixes(_location) :
                        /\ Len(d) >= Len(W) => ~ValidAt(d)
                        /\ Len(d) > Len(W) => ~ValidAt(d \o <<DotGit>>) )
               => _git_dir = AbsPath(W \o <<DotGit>>)

\* From /a, the control directory /.git whose HEAD is a symbolic link to
\* refs/... is found.
C5_Witness ==
    /\ Resolved
    /\ gitDirEnv = None
    /\ _location = <<"a">>
    /\ fs[<<DotGit>>] = Node(TRUE, TRUE, TRUE, LinkHead(RefsMaster, FALSE))
    /\ _git_dir = AbsPath(<<DotGit>>)

\* C6: for an object constructed as bare the work tree is absent after the
\* construction and after every call, get_work_tree returns None whatever
\* GIT_WORK_TREE and GIT_DIR hold, and the cached working directory is the
\* resolved control directory.
C6_BareHasNoWorkTree ==
    _is_bare_repo =>
        /\ _work_tree = None
        /\ op = "get_work_tree" => ret = ReturnValue(None)
        /\ _cwd = _git_dir

\* get_work_tree on a bare repository that was found, while GIT_WORK_TREE
\* names a directory.
C6_Witness ==
    /\ _is_bare_repo
    /\ op = "get_work_tree"
    /\ Truthy(workTreeEnv)
    /\ IsDir(fs, workTreeEnv, procCwd)
    /\ Truthy(_git_dir)
    /\ _cwd = _git_dir
    /\ ret = ReturnValue(None)

\* C7: in every state the public operations reach: if the control directory
\* is absent, the work tree is absent and the object is outside a
\* repository.
C7_LocationInvariant ==
    ~Truthy(_git_dir) => (~Truthy(_work_tree) /\ ~_is_in_repo)

\* A value of the location as a caller sees it: None and the empty string
\* are both absent.
Seen(v) == IF Truthy(v) THEN v ELSE None

\* The repository location and the cached working directory.
Location == <<Seen(_git_dir), Seen(_work_tree), _is_in_repo, Seen(_cwd)>>

\* C8: the construction fixes the cached working directory; every execute
\* leaves the location and the cached directory as they are and spawns its
\* child in the cached directory, or in the process's directory under
\* with_keep_cwd, whatever became of the environment; only refresh
\* recomputes the location.
C8_OnlyRefreshResolves ==
    [][ /\ op' = "execute" =>
               /\ Location' = Location
               /\ FirstSpawn' # 0
               /\ events'[FirstSpawn'].cwd =
                      IF inp'.opts.with_keep_cwd = PyBool(TRUE)
                      THEN AbsPath(procCwd) ELSE _cwd
        /\ Location' # Location => op' = "refresh" ]_vars

====
